---- MODULE Spec2Model ----
(***************************************************************************)
(* Model of src/index.ts: the command-line driver and analyzeFunctions,    *)
(* which walks every source file's syntax tree, classifies each            *)
(* function-like node as returning JSX or not, and prints the counts.      *)
(*                                                                         *)
(* A corpus (the files of the project) is a forest stored in one sequence  *)
(* of nodes numbered in pre-order, i.e. in source order file by file: node *)
(* n is the record [kind, parent], parent = 0 for a SourceFile.            *)
(***************************************************************************)
EXTENDS Integers, Sequences, FiniteSets, TLC

\* Largest number of syntax nodes (SourceFile nodes included) in a corpus.
MaxNodes == 6

VARIABLES
    arg,                 \* process.argv[2]: "none", "bad" (no such directory), "dir"
    nodes,               \* the syntax trees of the files under the target folder
    sourceFiles,         \* project.getSourceFiles(): the SourceFile nodes, in order
    pc,                  \* "start", "load", "loop" (for..of header), "traverse", "exit"
    fileIdx,             \* how many files the for..of loop has taken
    stack,               \* nodes the running forEachDescendant still has to visit
    jsxFunctionCount,
    normalFunctionCount,
    visited,             \* history: one entry per invocation of the callback
    report,              \* the "Analysis Complete" block, once printed
    stderr,              \* which diagnostic was written to standard error
    exitCode,            \* -1 while the process runs
    run,                 \* 1, or 2 for a re-run over the same folder
    prev                 \* the report of run 1, kept for comparison by a re-run

vars == <<arg, nodes, sourceFiles, pc, fileIdx, stack, jsxFunctionCount,
          normalFunctionCount, visited, report, stderr, exitCode, run, prev>>

----------------------------------------------------------------------------
(* Node kinds and the ts-morph predicates the program uses.                *)

FunctionKinds == {"FunctionDeclaration", "FunctionExpression", "ArrowFunction"}
JsxKinds == {"JsxElement", "JsxSelfClosingElement", "JsxFragment"}
ExpressionKinds == {"FunctionExpression", "ArrowFunction", "Expression"} \cup JsxKinds
Kinds == {"FunctionDeclaration", "Block", "ReturnStatement", "Statement", "Parameter"}
            \cup ExpressionKinds

IsFunctionLikeNoArrow(t, n) == t[n].kind \in {"FunctionDeclaration", "FunctionExpression"}

\* Node.isFunctionDeclaration || Node.isArrowFunction || Node.isFunctionExpression
IsFunctionLike(t, n) == t[n].kind \in FunctionKinds

\* Node.isJsxElement || Node.isJsxSelfClosingElement || Node.isJsxFragment
IsJsx(t, n) == t[n].kind \in JsxKinds

isBlock(t, n) == t[n].kind = "Block"

isReturnStatement(t, n) == t[n].kind = "ReturnStatement"

\* The children of node n, in source order (Node.forEachChild).
Children(t, n) == SelectSeq([i \in 1..Len(t) |-> i], LAMBDA i : t[i].parent = n)

\* node.getBody(): the last child unless it is a parameter; 0 stands for undefined.
getBody(t, n) ==
    LET c == Children(t, n)
    IN  IF c = <<>> \/ t[c[Len(c)]].kind = "Parameter" THEN 0 ELSE c[Len(c)]

\* blockBody.getStatements()
getStatements(t, b) == Children(t, b)

\* statement.getExpression(): 0 stands for undefined.
getExpression(t, s) == IF Children(t, s) = <<>> THEN 0 ELSE Children(t, s)[1]

----------------------------------------------------------------------------
(* The classifier.                                                         *)

\* A faulty search that looks at the direct children of the body only.
ShallowDescendantIsJsx(t, n) ==
    \E i \in 1..Len(Children(t, n)) : IsJsx(t, Children(t, n)[i])

RECURSIVE OwnDescendantIsJsx(_, _)
\* A faulty search that does not enter nested function definitions.
OwnDescendantIsJsx(t, n) ==
    \E i \in 1..Len(Children(t, n)) :
        LET c == Children(t, n)[i]
        IN  IsJsx(t, c) \/ (~IsFunctionLike(t, c) /\ OwnDescendantIsJsx(t, c))

RECURSIVE DescendantIsJsx(_, _)
\* body.forEachDescendant(...): does the callback see a JSX node below n?
\* The traversal covers the descendants of n, not n itself, and is never cut
\* short (the skip requested in the callback belongs to the outer traversal).
DescendantIsJsx(t, n) ==
    \E i \in 1..Len(Children(t, n)) :
        LET c == Children(t, n)[i]
        IN  IsJsx(t, c) \/ DescendantIsJsx(t, c)

\* Check 1: JSX anywhere below the body.
Check1(t, n) == getBody(t, n) # 0 /\ DescendantIsJsx(t, getBody(t, n))

\* A top-level return statement of block b whose expression is a JSX node.
ReturnsJsxDirectly(t, b) ==
    \E i \in 1..Len(getStatements(t, b)) :
        LET s == getStatements(t, b)[i]
        IN  /\ isReturnStatement(t, s)
            /\ getExpression(t, s) # 0
            /\ IsJsx(t, getExpression(t, s))

\* A faulty check 2 that accepts any top-level return with an expression.
Check2AnyReturn(t, n) ==
    LET b == getBody(t, n)
    IN  /\ b # 0
        /\ \/ (t[n].kind = "ArrowFunction" /\ IsJsx(t, b))
           \/ /\ isBlock(t, b)
              /\ \E i \in 1..Len(getStatements(t, b)) :
                    LET s == getStatements(t, b)[i]
                    IN  isReturnStatement(t, s) /\ getExpression(t, s) # 0

\* A faulty check 2 without the concise-body case of arrow functions.
Check2BlocksOnly(t, n) ==
    LET b == getBody(t, n)
    IN  b # 0 /\ isBlock(t, b) /\ ReturnsJsxDirectly(t, b)

\* Check 2: the return statements, or the concise body of an arrow function.
Check2(t, n) ==
    LET b == getBody(t, n)
    IN  IF t[n].kind \in {"FunctionDeclaration", "FunctionExpression"}
        THEN b # 0 /\ isBlock(t, b) /\ ReturnsJsxDirectly(t, b)
        ELSE IF t[n].kind = "ArrowFunction"
        THEN IF IsJsx(t, b) THEN TRUE
             ELSE isBlock(t, b) /\ ReturnsJsxDirectly(t, b)
        ELSE FALSE

NeverSkip(t, n) == FALSE

\* traversal.skip() is called, on the traversal of the file, each time the
\* callback of check 1 sees a JSX node: the children of n are then not visited.
SkipRequested(t, n) == IsFunctionLike(t, n) /\ Check1(t, n)

BreadthFirst(t, rest, n) ==
    rest \o (IF SkipRequested(t, n) THEN <<>> ELSE Children(t, n))

\* What sourceFile.forEachDescendant still has to visit after the callback ran
\* on n: the children of n first (unless skipped), then what was pending.
Pending(t, rest, n) ==
    (IF SkipRequested(t, n) THEN <<>> ELSE Children(t, n)) \o rest

----------------------------------------------------------------------------
(* The syntax trees the parser hands over: all forests of at most MaxNodes *)
(* nodes over the following grammar (a subset of what the parser yields),  *)
(* built node by node in source order.                                     *)

\* May a node of kind k be appended as the next child of node p of tree t?
Allowed(t, p, k) ==
    LET pk == t[p].kind
        kids == Children(t, p)
        last == IF kids = <<>> THEN "" ELSE t[kids[Len(kids)]].kind
    IN  CASE pk = "SourceFile" -> k \in {"FunctionDeclaration", "Statement"}
          [] pk = "Block" -> k \in {"FunctionDeclaration", "ReturnStatement", "Statement"}
          [] pk = "ReturnStatement" -> kids = <<>> /\ k \in ExpressionKinds
          [] pk = "Statement" -> k = "ReturnStatement" \/ k \in ExpressionKinds
          [] pk \in {"Expression"} \cup JsxKinds -> k \in ExpressionKinds
          [] pk = "Parameter" -> kids = <<>> /\ k \in ExpressionKinds
          [] pk \in FunctionKinds ->
                \/ kids = <<>> /\ k = "Parameter"
                \/ /\ last \in {"", "Parameter"}
                   /\ \/ k = "Block"
                      \/ pk = "ArrowFunction" /\ k \in ExpressionKinds
          [] OTHER -> FALSE

RECURSIVE RightPath(_, _)
\* Node n and its ancestors: the nodes that can still take a child in pre-order.
RightPath(t, n) == IF n = 0 THEN {} ELSE {n} \cup RightPath(t, t[n].parent)

\* The forests that continue forest t by one node.
Extend(t) ==
    {Append(t, [kind |-> kp[1], parent |-> kp[2]]) :
        kp \in {x \in Kinds \X RightPath(t, Len(t)) : Allowed(t, x[2], x[1])}}
    \cup {Append(t, [kind |-> "SourceFile", parent |-> 0])}

\* Function expressions and arrow functions always have a body.
Complete(t) ==
    \A n \in 1..Len(t) :
        t[n].kind \in {"FunctionExpression", "ArrowFunction"} => getBody(t, n) # 0

Roots(t) == SelectSeq([i \in 1..Len(t) |-> i], LAMBDA i : t[i].kind = "SourceFile")

----------------------------------------------------------------------------
(* The program.                                                            *)

NoReport == [printed |-> FALSE]

Init ==
    /\ arg \in {"none", "bad", "dir"}
    /\ nodes = <<>>
    /\ sourceFiles = <<>>
    /\ pc = "start"
    /\ fileIdx = 0
    /\ stack = <<>>
    /\ jsxFunctionCount = 0
    /\ normalFunctionCount = 0
    /\ visited = <<>>
    /\ report = NoReport
    /\ stderr = ""
    /\ exitCode = -1
    /\ run = 1
    /\ prev = NoReport

Exit(code, diagnostic) ==
    /\ pc' = "exit"
    /\ exitCode' = code
    /\ stderr' = diagnostic

\* if (!targetFolderArg) { ...; process.exit(1) }
NoArgument ==
    /\ pc = "start"
    /\ arg = "none"
    /\ Exit(1, "usage")
    /\ UNCHANGED <<arg, nodes, sourceFiles, fileIdx, stack, jsxFunctionCount,
                   normalFunctionCount, visited, report, run, prev>>

\* if (!fs.existsSync(targetFolder) || !statSync(targetFolder).isDirectory()) ...
BadPath ==
    /\ pc = "start"
    /\ arg = "bad"
    /\ Exit(1, "path")
    /\ UNCHANGED <<arg, nodes, sourceFiles, fileIdx, stack, jsxFunctionCount,
                   normalFunctionCount, visited, report, run, prev>>

\* analyzeFunctions(targetFolder) is called: the project and the counters.
CallAnalyze ==
    /\ pc = "start"
    /\ arg = "dir"
    /\ pc' = "load"
    /\ jsxFunctionCount' = 0
    /\ normalFunctionCount' = 0
    /\ fileIdx' = 0
    /\ UNCHANGED <<arg, nodes, sourceFiles, stack, visited, report, stderr,
                   exitCode, run, prev>>

\* project.addSourceFilesAtPaths([...]): the parser delivers the next node of
\* the files under the target folder.
AddSourceFilesAtPaths ==
    /\ pc = "load"
    /\ Len(nodes) < MaxNodes
    /\ nodes' \in Extend(nodes)
    /\ UNCHANGED <<arg, sourceFiles, pc, fileIdx, stack, jsxFunctionCount,
                   normalFunctionCount, visited, report, stderr, exitCode, run, prev>>

\* const sourceFiles = project.getSourceFiles()
GetSourceFiles ==
    /\ pc = "load"
    /\ Complete(nodes)
    /\ sourceFiles' = Roots(nodes)
    /\ pc' = "loop"
    /\ UNCHANGED <<arg, nodes, fileIdx, stack, jsxFunctionCount,
                   normalFunctionCount, visited, report, stderr, exitCode, run, prev>>

ProcessFileResetting ==
    /\ pc = "loop"
    /\ fileIdx < Len(sourceFiles)
    /\ fileIdx' = fileIdx + 1
    /\ stack' = Children(nodes, sourceFiles[fileIdx + 1])
    /\ pc' = IF stack' = <<>> THEN "loop" ELSE "traverse"
    /\ jsxFunctionCount' = 0
    /\ normalFunctionCount' = 0
    /\ UNCHANGED <<arg, nodes, sourceFiles, visited, report, stderr, exitCode,
                   run, prev>>

\* for (const sourceFile of sourceFiles) { sourceFile.forEachDescendant(...) }:
\* the loop takes the next file and the traversal starts at its children.
ProcessFile ==
    /\ pc = "loop"
    /\ fileIdx < Len(sourceFiles)
    /\ fileIdx' = fileIdx + 1
    /\ stack' = Children(nodes, sourceFiles[fileIdx + 1])
    /\ pc' = IF stack' = <<>> THEN "loop" ELSE "traverse"
    /\ UNCHANGED <<arg, nodes, sourceFiles, jsxFunctionCount, normalFunctionCount,
                   visited, report, stderr, exitCode, run, prev>>

\* One invocation of the callback of sourceFile.forEachDescendant, on the next
\* node of the traversal, and the traversal's decision to descend or not.
Visit ==
    /\ pc = "traverse"
    /\ stack # <<>>
    /\ LET n == Head(stack)
           fn == IsFunctionLike(nodes, n)
           c1 == fn /\ Check1(nodes, n)
           c2 == fn /\ Check2(nodes, n)
           returnsJsx == c1 \/ c2
       IN  /\ jsxFunctionCount' =
                IF fn /\ returnsJsx THEN jsxFunctionCount + 1 ELSE jsxFunctionCount
           /\ normalFunctionCount' =
                IF fn /\ ~returnsJsx THEN normalFunctionCount + 1 ELSE normalFunctionCount
           /\ visited' = Append(visited, [node |-> n, fn |-> fn, check1 |-> c1,
                                          check2 |-> c2, returnsJsx |-> returnsJsx])
           /\ stack' = Pending(nodes, Tail(stack), n)
    /\ pc' = IF stack' = <<>> THEN "loop" ELSE "traverse"
    /\ UNCHANGED <<arg, nodes, sourceFiles, fileIdx, report, stderr, exitCode,
                   run, prev>>

\* The console.log calls after the loop; the process then ends with code 0.
PrintReport ==
    /\ pc = "loop"
    /\ fileIdx = Len(sourceFiles)
    /\ report' = [printed |-> TRUE,
                  files |-> Len(sourceFiles),
                  jsx |-> jsxFunctionCount,
                  normal |-> normalFunctionCount,
                  total |-> jsxFunctionCount + normalFunctionCount]
    /\ pc' = "exit"
    /\ exitCode' = 0
    /\ UNCHANGED <<arg, nodes, sourceFiles, fileIdx, stack, jsxFunctionCount,
                   normalFunctionCount, visited, stderr, run, prev>>

AnalysisErrorPartialReport ==
    /\ pc \in {"load", "loop", "traverse"}
    /\ stack' = <<>>
    /\ report' = [printed |-> TRUE,
                  files |-> fileIdx,
                  jsx |-> jsxFunctionCount,
                  normal |-> normalFunctionCount,
                  total |-> jsxFunctionCount + normalFunctionCount]
    /\ Exit(1, "analysis")
    /\ UNCHANGED <<arg, nodes, sourceFiles, fileIdx, jsxFunctionCount,
                   normalFunctionCount, visited, run, prev>>

\* analyzeFunctions(...).catch(error => { console.error(...); process.exit(1) }):
\* an error thrown anywhere in the analysis unwinds it and ends the process.
AnalysisError ==
    /\ pc \in {"load", "loop", "traverse"}
    /\ stack' = <<>>
    /\ Exit(1, "analysis")
    /\ UNCHANGED <<arg, nodes, sourceFiles, fileIdx, jsxFunctionCount,
                   normalFunctionCount, visited, report, run, prev>>

\* The orders in which the project may list the files s.
Orders(s) ==
    {o \in [1..Len(s) -> {s[i] : i \in 1..Len(s)}] :
        \A i, j \in 1..Len(s) : o[i] = o[j] => i = j}

\* The program is run again on the unchanged folder: the same trees, listed in
\* any order; the report of the first run is kept for comparison.
Rerun ==
    /\ pc = "exit"
    /\ exitCode = 0
    /\ run = 1
    /\ run' = 2
    /\ prev' = report
    /\ sourceFiles' \in Orders(sourceFiles)
    /\ pc' = "loop"
    /\ fileIdx' = 0
    /\ stack' = <<>>
    /\ jsxFunctionCount' = 0
    /\ normalFunctionCount' = 0
    /\ visited' = <<>>
    /\ report' = NoReport
    /\ exitCode' = -1
    /\ UNCHANGED <<arg, nodes, stderr>>

Next ==
    \/ NoArgument
    \/ BadPath
    \/ CallAnalyze
    \/ AddSourceFilesAtPaths
    \/ GetSourceFiles
    \/ ProcessFile
    \/ Visit
    \/ PrintReport
    \/ AnalysisError

Spec == Init /\ [][Next]_vars

NextRerun ==
    \/ Next
    \/ Rerun

SpecRerun == Init /\ [][NextRerun]_vars

----------------------------------------------------------------------------
(* Vocabulary of the properties, read off the tree through parent links.   *)

NodeIds == 1..Len(nodes)

Entries == 1..Len(visited)

KindOf(n) == nodes[n].kind

RECURSIVE IsAncestor(_, _)
\* a is a proper ancestor of n.
IsAncestor(a, n) ==
    /\ nodes[n].parent # 0
    /\ (nodes[n].parent = a \/ IsAncestor(a, nodes[n].parent))

RECURSIVE FileOf(_)
FileOf(n) == IF nodes[n].parent = 0 THEN n ELSE FileOf(nodes[n].parent)

FilePos(f) == CHOOSE i \in 1..Len(sourceFiles) : sourceFiles[i] = f

FunctionNodes == {n \in NodeIds : KindOf(n) \in FunctionKinds}

MarkupNodes == {n \in NodeIds : KindOf(n) \in JsxKinds}

\* A markup node is a strict descendant of the body of function n.
MarkupBelowBody(n) ==
    /\ getBody(nodes, n) # 0
    /\ \E m \in MarkupNodes : IsAncestor(getBody(nodes, n), m)

\* The body of function n is a markup node or has one below it.
MarkupInBody(n) ==
    /\ getBody(nodes, n) # 0
    /\ (nodes[getBody(nodes, n)].kind \in JsxKinds \/ MarkupBelowBody(n))

\* The kind of the body of function n, "" when it has none.
BodyKind(n) == IF getBody(nodes, n) = 0 THEN "" ELSE KindOf(getBody(nodes, n))

\* n is an arrow function whose expression body is itself a markup node.
ConciseMarkupArrow(n) ==
    /\ KindOf(n) = "ArrowFunction"
    /\ BodyKind(n) \in JsxKinds

\* Some function-like proper ancestor of n has markup below its body.
Shadowed(n) ==
    \E a \in FunctionNodes : IsAncestor(a, n) /\ MarkupBelowBody(a)

\* The entries that counted function-like node n.
CountedAt(n) == {i \in Entries : visited[i].node = n /\ visited[i].fn}

\* The files whose traversal has returned.
FilesDone ==
    LET k == IF pc = "traverse" THEN fileIdx - 1
             ELSE IF pc = "loop" \/ (pc = "exit" /\ exitCode = 0) THEN fileIdx
             ELSE 0
    IN  {sourceFiles[i] : i \in 1..k}

\* The step is an invocation of the callback on a function-like node.
VisitsFunction ==
    /\ Len(visited') = Len(visited) + 1
    /\ KindOf(visited'[Len(visited')].node) \in FunctionKinds

----------------------------------------------------------------------------
(* The properties.                                                         *)

\* C1: when the traversal of a file has returned, the file has as many
\* classification entries as it has function-like nodes, nested ones included.
C1_EveryFunctionCounted ==
    \A f \in FilesDone :
        Cardinality({i \in Entries : visited[i].fn /\ FileOf(visited[i].node) = f})
            = Cardinality({n \in FunctionNodes : FileOf(n) = f})

\* C2: every visited function with a markup node anywhere below its body is
\* classified as returning JSX, wherever the markup sits, and is counted so.
C2_MarkupBelowBodyIsMarkupProducing ==
    /\ \A i \in Entries :
          LET n == visited[i].node
          IN  (KindOf(n) \in FunctionKinds /\ MarkupBelowBody(n)) => visited[i].returnsJsx
    /\ jsxFunctionCount >=
          Cardinality({i \in Entries : KindOf(visited[i].node) \in FunctionKinds
                                        /\ MarkupBelowBody(visited[i].node)})

\* A visited function all of whose markup lies inside a nested function.
C2_Witness ==
    \E i \in Entries :
        LET n == visited[i].node
        IN  /\ KindOf(n) \in FunctionKinds
            /\ MarkupBelowBody(n)
            /\ \A m \in MarkupNodes :
                  IsAncestor(n, m) =>
                    \E g \in FunctionNodes : IsAncestor(n, g) /\ IsAncestor(g, m)
            /\ visited[i].returnsJsx
            /\ jsxFunctionCount >= 1

\* C3: visiting an arrow function whose expression body is itself a markup
\* node classifies it as returning JSX and increments jsxFunctionCount only.
C3_ConciseMarkupArrowCounted ==
    [][(VisitsFunction /\ ConciseMarkupArrow(visited'[Len(visited')].node))
        => /\ visited'[Len(visited')].returnsJsx
           /\ jsxFunctionCount' = jsxFunctionCount + 1
           /\ normalFunctionCount' = normalFunctionCount]_vars

\* Such an arrow function, with no markup inside its markup body, was counted.
C3_Witness ==
    \E i \in Entries :
        /\ ConciseMarkupArrow(visited[i].node)
        /\ ~MarkupBelowBody(visited[i].node)
        /\ visited[i].returnsJsx
        /\ jsxFunctionCount >= 1

\* C4: visiting a function with no markup node in its body (none, empty, or
\* markup-free) classifies it as plain and increments normalFunctionCount only.
C4_NoMarkupIsPlain ==
    [][(VisitsFunction /\ ~MarkupInBody(visited'[Len(visited')].node))
        => /\ ~visited'[Len(visited')].returnsJsx
           /\ normalFunctionCount' = normalFunctionCount + 1
           /\ jsxFunctionCount' = jsxFunctionCount]_vars

\* A function whose block returns a markup-free expression was counted plain.
C4_Witness ==
    \E i \in Entries :
        LET n == visited[i].node
            b == getBody(nodes, n)
        IN  /\ KindOf(n) = "FunctionDeclaration"
            /\ b # 0
            /\ \E s \in NodeIds :
                  /\ nodes[s].parent = b
                  /\ KindOf(s) = "ReturnStatement"
                  /\ getExpression(nodes, s) # 0
            /\ ~MarkupInBody(n)
            /\ ~visited[i].returnsJsx
            /\ normalFunctionCount >= 1

\* C5: the two counters add up to the number of function-like nodes the
\* callback has been invoked on, each node counted in exactly one of them, and
\* the printed total is their sum.
C5_CountersSumToVisitedFunctions ==
    LET fns == {i \in Entries : KindOf(visited[i].node) \in FunctionKinds}
    IN  /\ jsxFunctionCount + normalFunctionCount = Cardinality(fns)
        /\ jsxFunctionCount = Cardinality({i \in fns : visited[i].returnsJsx})
        /\ normalFunctionCount = Cardinality({i \in fns : ~visited[i].returnsJsx})
        /\ report.printed =>
              /\ report.jsx = jsxFunctionCount
              /\ report.normal = normalFunctionCount
              /\ report.total = Cardinality(fns)

\* A printed report over functions of both classes and other nodes.
C5_Witness ==
    /\ report.printed
    /\ report.total = 2
    /\ jsxFunctionCount = 1
    /\ normalFunctionCount = 1
    /\ \E i \in Entries : KindOf(visited[i].node) \notin FunctionKinds

\* C6: the report is printed only by a run that went through every file and
\* ends with code 0; a run without argument, on a bad path, or hit by an error
\* during the analysis ends with code 1 and prints no report.
C6_ReportOnlyOnCompleteRun ==
    /\ report.printed =>
          /\ exitCode = 0
          /\ arg = "dir"
          /\ fileIdx = Len(sourceFiles)
          /\ \A n \in NodeIds :
                (nodes[n].parent # 0 /\ KindOf(nodes[n].parent) = "SourceFile")
                    => \E i \in Entries : visited[i].node = n
    /\ exitCode = 1 => ~report.printed
    /\ (pc = "exit" /\ arg # "dir") => exitCode = 1
    /\ stderr # "" => exitCode = 1

\* An error ended the run after functions of a file had been counted.
C6_Witness ==
    /\ exitCode = 1
    /\ stderr = "analysis"
    /\ fileIdx >= 1
    /\ jsxFunctionCount + normalFunctionCount >= 1
    /\ ~report.printed

\* C7: a second complete run over the same files, listed in any order, prints
\* the same counts and the same number of files as the first.
C7_SameCountsInAnyOrder ==
    (run = 2 /\ report.printed) => report = prev

\* A second run over two files in the other order printed a report.
C7_Witness ==
    /\ run = 2
    /\ report.printed
    /\ Len(sourceFiles) >= 2
    /\ sourceFiles # Roots(nodes)
    /\ report.jsx >= 1
    /\ report.normal >= 1

\* C8 as stated: whenever check 2 finds markup, check 1 has found markup too.
C8_Check2NeverDecides ==
    \A i \in Entries : visited[i].check2 => visited[i].check1

\* C8 amended: check 2 finds markup that check 1 missed exactly on an arrow
\* function whose expression body is itself a markup node with no markup node
\* below it; on every function with a block body check 1 subsumes check 2.
C8_Check2DecidesOnlyConciseMarkup ==
    \A i \in Entries :
        LET n == visited[i].node
        IN  KindOf(n) \in FunctionKinds =>
              /\ (visited[i].check2 /\ ~visited[i].check1)
                    <=> (ConciseMarkupArrow(n) /\ ~MarkupBelowBody(n))
              /\ BodyKind(n) = "Block" =>
                    (visited[i].check2 => visited[i].check1)

\* A function with a block body on which both checks found markup.
C8_Witness ==
    \E i \in Entries :
        /\ KindOf(visited[i].node) \in FunctionKinds
        /\ BodyKind(visited[i].node) = "Block"
        /\ visited[i].check2
        /\ visited[i].check1

\* C9: functions are counted file by file in the order of the file list, and
\* within a file in source order, an outer function before those inside it.
C9_CountedInSourceOrder ==
    \A i, j \in Entries :
        LET a == visited[i].node
            b == visited[j].node
        IN  (i < j /\ KindOf(a) \in FunctionKinds /\ KindOf(b) \in FunctionKinds) =>
              /\ FilePos(FileOf(a)) <= FilePos(FileOf(b))
              /\ FileOf(a) = FileOf(b) => a < b
              /\ ~IsAncestor(b, a)

\* An outer function, a function inside it and a later function outside both
\* were counted, in that order.
C9_Witness ==
    \E i, j, k \in Entries :
        LET a == visited[i].node
            b == visited[j].node
            c == visited[k].node
        IN  /\ i < j /\ j < k
            /\ {KindOf(a), KindOf(b), KindOf(c)} \subseteq FunctionKinds
            /\ IsAncestor(a, b)
            /\ ~IsAncestor(a, c) /\ ~IsAncestor(b, c)

====
